---------------------------- MODULE Spec2Model ----------------------------
(***************************************************************************)
(* Model of 0x02-redis_basic/exercise.py: the Cache facade over a Redis    *)
(* database, the count_calls and call_history decorators and replay.       *)
(*                                                                         *)
(* Python values are records [t |-> type name, v |-> payload]; every       *)
(* payload is a sequence of naturals so that any two values compare:       *)
(*   str    the code points of the text                                    *)
(*   bytes  the bytes                                                      *)
(*   int    <<sign, magnitude>>  (sign 0 for n >= 0, 1 for n < 0)          *)
(*   float  <<sign, tenths>>     (the float  +-tenths / 10)                *)
(*   None   << >>                                                          *)
(* Keys of the database are texts (sequences of code points).              *)
(***************************************************************************)
EXTENDS Integers, Sequences, FiniteSets, TLC

\* ------------------------------------------------------------- bounds
\* Identifiers uuid.uuid4() hands out in one run: one per store call.
MaxKeys == 2
\* Cache facades constructed in one run.
MaxFacades == 2

\* ------------------------------------------------------ Python values
PyStr(s) == [t |-> "str", v |-> s]
PyBytes(b) == [t |-> "bytes", v |-> b]
PyInt(sign, mag) == [t |-> "int", v |-> <<sign, mag>>]
PyFloat(sign, tenths) == [t |-> "float", v |-> <<sign, tenths>>]
PyNone == [t |-> "None", v |-> << >>]

\* A raised exception and a returned value, as the caller observes them.
Raise(exc) == [kind |-> "raise", exc |-> exc, val |-> PyNone]
Return(val) == [kind |-> "return", exc |-> "", val |-> val]

\* ----------------------------------------------------- text and bytes
\* str.encode('utf-8'), for code points below U+0800 (one- and two-byte forms).
RECURSIVE Utf8Encode(_)
Utf8Encode(s) ==
    IF s = << >> THEN << >>
    ELSE LET c == Head(s)
         IN  (IF c < 128 THEN <<c>> ELSE <<192 + (c \div 64), 128 + (c % 64)>>)
             \o Utf8Encode(Tail(s))

\* bytes.decode('utf-8'): the text, or no text when a byte sequence is ill-formed
\* (a continuation byte alone, an overlong lead 0xC0/0xC1, a truncated pair, a
\* byte above 0xF4).  Lead bytes 0xE0..0xF4 are outside the modelled alphabet.
RECURSIVE Utf8Valid(_)
Utf8Valid(b) ==
    IF b = << >> THEN TRUE
    ELSE LET x == Head(b)
         IN  IF x < 128 THEN Utf8Valid(Tail(b))
             ELSE IF x >= 194 /\ x <= 223
                  THEN /\ Len(b) >= 2
                       /\ b[2] >= 128 /\ b[2] <= 191
                       /\ Utf8Valid(Tail(Tail(b)))
                  ELSE FALSE

\* Mutant: the bytes decoded as Latin-1, one character per byte.
Latin1Text(b) == b

RECURSIVE Utf8Text(_)
Utf8Text(b) ==
    IF b = << >> THEN << >>
    ELSE LET x == Head(b)
         IN  IF x < 128 THEN <<x>> \o Utf8Text(Tail(b))
             ELSE <<(x - 192) * 64 + (b[2] - 128)>> \o Utf8Text(Tail(Tail(b)))

\* Decimal digits of a natural, as ASCII.
RECURSIVE Digits(_)
Digits(n) == IF n < 10 THEN <<48 + n>> ELSE Digits(n \div 10) \o <<48 + (n % 10)>>

\* repr(int)
IntRepr(v) == (IF v[1] = 1 THEN <<45>> ELSE << >>) \o Digits(v[2])

\* repr(float) of a float with one decimal digit: "1.5", "-0.5", "2.0".
FloatRepr(v) ==
    (IF v[1] = 1 THEN <<45>> ELSE << >>)
    \o Digits(v[2] \div 10) \o <<46>> \o Digits(v[2] % 10)

HexDigit(n) == IF n < 10 THEN 48 + n ELSE 87 + n

\* repr(bytes): b'...' with \xhh for the bytes that are not printable ASCII.
\* (The alphabet holds no quote, backslash, tab or line break.)
RECURSIVE BytesBody(_)
BytesBody(b) ==
    IF b = << >> THEN << >>
    ELSE LET x == Head(b)
         IN  (IF x >= 32 /\ x < 127 THEN <<x>>
              ELSE <<92, 120, HexDigit(x \div 16), HexDigit(x % 16)>>)
             \o BytesBody(Tail(b))

BytesRepr(b) == <<98, 39>> \o BytesBody(b) \o <<39>>

\* repr(str): '...' (the alphabet holds printable characters only, no quote).
StrRepr(s) == <<39>> \o s \o <<39>>

\* repr of a Python value.
Repr(x) ==
    CASE x.t = "str" -> StrRepr(x.v)
      [] x.t = "bytes" -> BytesRepr(x.v)
      [] x.t = "int" -> IntRepr(x.v)
      [] x.t = "float" -> FloatRepr(x.v)
      [] OTHER -> <<78, 111, 110, 101>>

\* str(args) of the positional-argument tuple: "()" or "(<repr>,)".
TupleStr(args) ==
    IF args = << >> THEN <<40, 41>>
    ELSE <<40>> \o Repr(args[1]) \o <<44, 41>>


\* int(x) of a bytes object: optional blanks around, an optional sign, then
\* digits, single underscores allowed between digits.
IsSpace(x) == x \in {9, 10, 11, 12, 13, 32}
IsDigit(x) == x >= 48 /\ x <= 57

RECURSIVE LStrip(_)
LStrip(b) == IF b # << >> /\ IsSpace(Head(b)) THEN LStrip(Tail(b)) ELSE b

RECURSIVE RStrip(_)
RStrip(b) ==
    IF b # << >> /\ IsSpace(b[Len(b)]) THEN RStrip(SubSeq(b, 1, Len(b) - 1)) ELSE b

Unsigned(b) == IF b # << >> /\ Head(b) \in {43, 45} THEN Tail(b) ELSE b

IntLiteral(b) ==
    LET d == Unsigned(RStrip(LStrip(b)))
    IN  /\ d # << >>
        /\ IsDigit(d[1]) /\ IsDigit(d[Len(d)])
        /\ \A i \in 1..Len(d) : IsDigit(d[i]) \/ d[i] = 95
        /\ \A i \in 1..(Len(d) - 1) : ~(d[i] = 95 /\ d[i + 1] = 95)

RECURSIVE DigitsValue(_)
DigitsValue(d) ==
    IF d = << >> THEN 0
    ELSE LET init == SubSeq(d, 1, Len(d) - 1)
             x == d[Len(d)]
         IN  IF x = 95 THEN DigitsValue(init) ELSE DigitsValue(init) * 10 + (x - 48)

IntValue(b) ==
    LET s == RStrip(LStrip(b))
        mag == DigitsValue(Unsigned(s))
    IN  PyInt(IF Head(s) = 45 /\ mag # 0 THEN 1 ELSE 0, mag)

\* ------------------------------------------------- the Redis client
\* redis-py's encoding of a command argument: bytes pass through, int and
\* float are sent as the ASCII of their repr, str as UTF-8; anything else is
\* refused with DataError before the command is sent.
Encodable(x) == x.t \in {"str", "bytes", "int", "float"}

Encode(x) ==
    CASE x.t = "bytes" -> x.v
      [] x.t = "str" -> Utf8Encode(x.v)
      [] x.t = "int" -> IntRepr(x.v)
      [] x.t = "float" -> FloatRepr(x.v)
      [] OTHER -> << >>

\* The database maps a key (a text) to [type |-> "string", val |-> bytes] or
\* [type |-> "list", val |-> sequence of bytes].  A command yields the
\* database it leaves and what the client call returns or raises.
EmptyDb == << >>

Has(db, key) == key \in DOMAIN db

Put(db, key, entry) ==
    [k \in DOMAIN db \cup {key} |-> IF k = key THEN entry ELSE db[k]]

\* FLUSHDB
RedisFlushDb(db) == [db |-> EmptyDb, out |-> Return(PyNone)]

\* GET key
RedisGet(db, key) ==
    IF ~Has(db, key) THEN [db |-> db, out |-> Return(PyNone)]
    ELSE IF db[key].type # "string" THEN [db |-> db, out |-> Raise("ResponseError")]
    ELSE [db |-> db, out |-> Return(PyBytes(db[key].val))]

\* SET key value
RedisSet(db, key, value) ==
    IF ~Encodable(value) THEN [db |-> db, out |-> Raise("DataError")]
    ELSE [db |-> Put(db, key, [type |-> "string", val |-> Encode(value)]),
          out |-> Return(PyNone)]

\* What INCR accepts as the stored number: an optional minus sign and digits.
RedisInteger(b) ==
    LET d == IF b # << >> /\ Head(b) = 45 THEN Tail(b) ELSE b
    IN  d # << >> /\ \A i \in 1..Len(d) : IsDigit(d[i])

\* Mutant: SET key 1 in place of INCR key.
RedisSetOne(db, key) ==
    [db |-> Put(db, key, [type |-> "string", val |-> Digits(1)]),
     out |-> Return(PyInt(0, 1))]

\* INCR key: an absent key counts from 0; the new value is stored as decimal text.
RedisIncr(db, key) ==
    IF ~Has(db, key)
    THEN [db |-> Put(db, key, [type |-> "string", val |-> Digits(1)]),
          out |-> Return(PyInt(0, 1))]
    ELSE IF db[key].type # "string" \/ ~RedisInteger(db[key].val)
    THEN [db |-> db, out |-> Raise("ResponseError")]
    ELSE LET n == IntValue(db[key].val).v[2] + 1
         IN  [db |-> Put(db, key, [type |-> "string", val |-> Digits(n)]),
              out |-> Return(PyInt(0, n))]

\* Mutant: LPUSH instead of RPUSH, the new entry in front.
RedisLpush(db, key, value) ==
    IF ~Encodable(value) THEN [db |-> db, out |-> Raise("DataError")]
    ELSE IF Has(db, key) /\ db[key].type # "list"
    THEN [db |-> db, out |-> Raise("ResponseError")]
    ELSE LET old == IF Has(db, key) THEN db[key].val ELSE << >>
         IN  [db |-> Put(db, key, [type |-> "list", val |-> <<Encode(value)>> \o old]),
              out |-> Return(PyNone)]

\* RPUSH key value
RedisRpush(db, key, value) ==
    IF ~Encodable(value) THEN [db |-> db, out |-> Raise("DataError")]
    ELSE IF Has(db, key) /\ db[key].type # "list"
    THEN [db |-> db, out |-> Raise("ResponseError")]
    ELSE LET old == IF Has(db, key) THEN db[key].val ELSE << >>
         IN  [db |-> Put(db, key, [type |-> "list", val |-> Append(old, Encode(value))]),
              out |-> Return(PyNone)]

\* Mutant: LRANGE key 1 -1, the first entry left out.
RedisLrangeFromOne(db, key) ==
    IF ~Has(db, key) THEN [db |-> db, out |-> Return(PyNone), items |-> << >>]
    ELSE IF db[key].type # "list"
    THEN [db |-> db, out |-> Raise("ResponseError"), items |-> << >>]
    ELSE [db |-> db, out |-> Return(PyNone),
          items |-> IF db[key].val = << >> THEN << >> ELSE Tail(db[key].val)]

\* LRANGE key 0 -1: the whole list, empty when the key is absent.
RedisLrange(db, key) ==
    IF ~Has(db, key) THEN [db |-> db, out |-> Return(PyNone), items |-> << >>]
    ELSE IF db[key].type # "list"
    THEN [db |-> db, out |-> Raise("ResponseError"), items |-> << >>]
    ELSE [db |-> db, out |-> Return(PyNone), items |-> db[key].val]

\* ------------------------------------------------------------- names
\* method.__qualname__ of Cache.store and of Cache.get, and the list suffixes.
StoreName == <<67, 97, 99, 104, 101, 46, 115, 116, 111, 114, 101>>
GetName == <<67, 97, 99, 104, 101, 46, 103, 101, 116>>
InKey(name) == name \o <<58, 105, 110, 112, 117, 116, 115>>
OutKey(name) == name \o <<58, 111, 117, 116, 112, 117, 116, 115>>

\* str(uuid.uuid4()): the identifier of the i-th draw, shortened to the text
\* "k<i>" (ASCII, like the 36 characters of the original).  No draw repeats
\* an earlier one; the code never looks inside an identifier.
UuidText(i) == <<107>> \o Digits(i)
Uuids == {UuidText(i) : i \in 1..MaxKeys}

\* What a facade can hold in self._redis:
\*   "Redis"   an instance of redis.Redis (what the constructor puts there)
\*   "Client"  another client object of the same database, offering the same
\*             commands, that is no instance of redis.Redis
\*   "None"    no client at all
Handles == {"Redis", "Client", "None"}

\* isinstance(self._redis, redis.Redis)
IsRedis(h) == h = "Redis"

\* self._redis.set / self._redis.get exist (else the call raises AttributeError).
HasClient(h) == h \in {"Redis", "Client"}

\* ------------------------------------------------------------- state
VARIABLES
    db,       \* the Redis database every facade connects to
    redis,    \* redis[f]: what facade f holds in self._redis
    issued,   \* how many identifiers uuid4 has returned so far
    calls,    \* the store calls since the most recent construction, in order
    last      \* the most recent operation: what its caller observed and what it printed

vars == <<db, redis, issued, calls, last>>

\* ---------------------------------------------------------- the code
\* A handler yields [db, out]: the database it leaves and what its caller
\* observes.  The decorators are written out for the one method they wrap.

\* The value bound to the parameter `data`, passed by position or by keyword.
Bound(args, kwargs) == IF args # << >> THEN args[1] ELSE kwargs[1]

\* Mutant: set(data, data_key), the two arguments exchanged.
store_swapped(d, h, args, kwargs, data_key) ==
    IF ~IsRedis(h) THEN [db |-> d, out |-> Raise("AttributeError")]
    ELSE IF ~Encodable(Bound(args, kwargs)) THEN [db |-> d, out |-> Raise("DataError")]
    ELSE [db |-> RedisSet(d, Encode(Bound(args, kwargs)), PyStr(data_key)).db,
          out |-> Return(PyStr(data_key))]

\* Mutant: the identifier drawn once for all calls, not once per call.
store_onekey(d, h, args, kwargs, data_key) ==
    IF ~HasClient(h) THEN [db |-> d, out |-> Raise("AttributeError")]
    ELSE LET r == RedisSet(d, UuidText(1), Bound(args, kwargs))
         IN  [db |-> r.db,
              out |-> IF r.out.kind = "raise" THEN r.out ELSE Return(PyStr(UuidText(1)))]

\* Cache.store, the undecorated method; data_key is the identifier uuid4 drew.
store(d, h, args, kwargs, data_key) ==
    IF ~HasClient(h) THEN [db |-> d, out |-> Raise("AttributeError")]
    ELSE LET r == RedisSet(d, data_key, Bound(args, kwargs))
         IN  [db |-> r.db,
              out |-> IF r.out.kind = "raise" THEN r.out ELSE Return(PyStr(data_key))]

\* Mutant: the isinstance test negated, so a live connection is never counted.
count_calls_inverted(d, h, args, kwargs, data_key) ==
    IF ~IsRedis(h)
    THEN LET r == RedisIncr(d, StoreName)
         IN  IF r.out.kind = "raise" THEN r
             ELSE store(r.db, h, args, kwargs, data_key)
    ELSE store(d, h, args, kwargs, data_key)

\* Mutant: the counter named by method.__name__ ("store"), not by
\* method.__qualname__.
count_calls_by_name(d, h, args, kwargs, data_key) ==
    IF IsRedis(h)
    THEN LET r == RedisIncr(d, <<115, 116, 111, 114, 101>>)
         IN  IF r.out.kind = "raise" THEN r
             ELSE store(r.db, h, args, kwargs, data_key)
    ELSE store(d, h, args, kwargs, data_key)

\* count_calls(store): the invoker.
count_calls(d, h, args, kwargs, data_key) ==
    IF IsRedis(h)
    THEN LET r == RedisIncr(d, StoreName)
         IN  IF r.out.kind = "raise" THEN r
             ELSE store(r.db, h, args, kwargs, data_key)
    ELSE store(d, h, args, kwargs, data_key)

\* Mutant: the invoker returns what the second rpush returned (the new length
\* of the outputs list) and turns an error of the method into None.
call_history_opaque(d, h, args, kwargs, data_key) ==
    LET pushed == IF IsRedis(h) THEN RedisRpush(d, InKey(StoreName), PyStr(TupleStr(args)))
                  ELSE [db |-> d, out |-> Return(PyNone)]
    IN  IF pushed.out.kind = "raise" THEN pushed
        ELSE LET output == count_calls(pushed.db, h, args, kwargs, data_key)
             IN  IF output.out.kind = "raise" THEN [db |-> output.db, out |-> Return(PyNone)]
                 ELSE IF ~IsRedis(h) THEN output
                 ELSE LET q == RedisRpush(output.db, OutKey(StoreName), output.out.val)
                      IN  [db |-> q.db,
                           out |-> Return(PyInt(0, Len(q.db[OutKey(StoreName)].val)))]

\* Mutant: both isinstance tests left out, the history pushed through
\* whatever client the facade holds.
call_history_unguarded(d, h, args, kwargs, data_key) ==
    LET pushed == IF HasClient(h) THEN RedisRpush(d, InKey(StoreName), PyStr(TupleStr(args)))
                  ELSE [db |-> d, out |-> Raise("AttributeError")]
    IN  IF pushed.out.kind = "raise" THEN pushed
        ELSE LET output == count_calls(pushed.db, h, args, kwargs, data_key)
             IN  IF output.out.kind = "raise" THEN output
                 ELSE LET q == RedisRpush(output.db, OutKey(StoreName), output.out.val)
                      IN  [db |-> q.db,
                           out |-> IF q.out.kind = "raise" THEN q.out ELSE output.out]

\* call_history(count_calls(store)): the invoker.
call_history(d, h, args, kwargs, data_key) ==
    LET in_key == InKey(StoreName)
        out_key == OutKey(StoreName)
        pushed == IF IsRedis(h) THEN RedisRpush(d, in_key, PyStr(TupleStr(args)))
                  ELSE [db |-> d, out |-> Return(PyNone)]
    IN  IF pushed.out.kind = "raise" THEN pushed
        ELSE LET output == count_calls(pushed.db, h, args, kwargs, data_key)
             IN  IF output.out.kind = "raise" \/ ~IsRedis(h) THEN output
                 ELSE LET q == RedisRpush(output.db, out_key, output.out.val)
                      IN  [db |-> q.db,
                           out |-> IF q.out.kind = "raise" THEN q.out ELSE output.out]

\* The conversion functions the typed getters pass to get:
\*   "decode_utf8"   lambda x: x.decode('utf-8')
\*   "int"           lambda x: int(x)
\* and "None" for no function.
Apply(fn, x) ==
    IF fn = "decode_utf8"
    THEN IF x.t # "bytes" THEN Raise("AttributeError")
         ELSE IF Utf8Valid(x.v) THEN Return(PyStr(Utf8Text(x.v)))
         ELSE Raise("UnicodeDecodeError")
    ELSE IF x.t # "bytes" THEN Raise("TypeError")
         ELSE IF IntLiteral(x.v) THEN Return(IntValue(x.v))
         ELSE Raise("ValueError")

\* Mutant: an error of the conversion function is caught and None returned.
get_swallow(d, h, key, fn) ==
    IF ~IsRedis(h) THEN [db |-> d, out |-> Raise("AttributeError")]
    ELSE LET data == RedisGet(d, key)
         IN  IF data.out.kind = "raise" THEN data
             ELSE [db |-> data.db,
                   out |-> IF fn = "None" THEN Return(data.out.val)
                           ELSE IF Apply(fn, data.out.val).kind = "raise" THEN Return(PyNone)
                           ELSE Apply(fn, data.out.val)]

\* Mutant: get decorated with count_calls as well.
get_counted(d, h, key, fn) ==
    IF ~HasClient(h) THEN [db |-> d, out |-> Raise("AttributeError")]
    ELSE LET counted == IF IsRedis(h) THEN RedisIncr(d, GetName).db ELSE d
             data == RedisGet(counted, key)
         IN  IF data.out.kind = "raise" THEN data
             ELSE [db |-> data.db,
                   out |-> IF fn # "None" THEN Apply(fn, data.out.val)
                           ELSE Return(data.out.val)]

\* Cache.get
get(d, h, key, fn) ==
    IF ~HasClient(h) THEN [db |-> d, out |-> Raise("AttributeError")]
    ELSE LET data == RedisGet(d, key)
         IN  IF data.out.kind = "raise" THEN data
             ELSE [db |-> data.db,
                   out |-> IF fn # "None" THEN Apply(fn, data.out.val)
                           ELSE Return(data.out.val)]

\* Cache.get_str
get_str(d, h, key) == get(d, h, key, "decode_utf8")

\* Cache.get_int
get_int(d, h, key) == get(d, h, key, "int")

\* Mutant: the constructor connects and does not flush.
init_noflush(d) == [db |-> d, out |-> Return(PyNone)]

\* Cache.__init__: connect, then FLUSHDB.
init(d) == RedisFlushDb(d)

\* The two lines replay prints, by their interpolated parts:
\*   f"{name} was called {count} times:"
\*   f"{name}(*{input}) -> {output}"
Summary(name, count) == [fmt |-> "summary", name |-> name, a |-> count, b |-> << >>]
Entry(name, input, output) == [fmt |-> "entry", name |-> name, a |-> input, b |-> output]

\* Mutant: zip_longest in place of zip, a missing partner shown as None.
RECURSIVE EntryLinesLongest(_, _, _)
EntryLinesLongest(name, ins, outs) ==
    IF ins = << >> /\ outs = << >> THEN << >>
    ELSE IF ins # << >> /\ ~Utf8Valid(Head(ins)) THEN << >>
    ELSE <<Entry(name,
                 IF ins = << >> THEN <<78, 111, 110, 101>> ELSE Utf8Text(Head(ins)),
                 IF outs = << >> THEN <<78, 111, 110, 101>> ELSE BytesRepr(Head(outs)))>>
         \o EntryLinesLongest(name,
                              IF ins = << >> THEN ins ELSE Tail(ins),
                              IF outs = << >> THEN outs ELSE Tail(outs))

\* The loop over zip(inputs, outputs): one line per pair, the output formatted
\* as str() of a bytes object; it ends at the shorter list, or at an input
\* that does not decode.
RECURSIVE EntryLines(_, _, _)
EntryLines(name, ins, outs) ==
    IF ins = << >> \/ outs = << >> \/ ~Utf8Valid(Head(ins)) THEN << >>
    ELSE <<Entry(name, Utf8Text(Head(ins)), BytesRepr(Head(outs)))>>
         \o EntryLines(name, Tail(ins), Tail(outs))

Min(a, b) == IF a <= b THEN a ELSE b

\* replay, from `fxn_name = fn.__qualname__` on: the summary line, then the
\* entry lines.  Yields [db, out, stdout], stdout the lines printed.
report(d, name) ==
    LET c == RedisGet(d, name)
    IN  IF c.out.kind = "raise"
        THEN [db |-> c.db, out |-> c.out, stdout |-> << >>]
        ELSE IF c.out.val.v # << >> /\ ~IntLiteral(c.out.val.v)
        THEN [db |-> c.db, out |-> Raise("ValueError"), stdout |-> << >>]
        ELSE LET fxn_call_count == IF c.out.val.v = << >> THEN PyInt(0, 0)
                                   ELSE IntValue(c.out.val.v)
                 head == <<Summary(name, IntRepr(fxn_call_count.v))>>
                 fxn_inputs == RedisLrange(c.db, InKey(name))
                 fxn_outputs == RedisLrange(fxn_inputs.db, OutKey(name))
                 lines == EntryLines(name, fxn_inputs.items, fxn_outputs.items)
             IN  IF fxn_inputs.out.kind = "raise"
                 THEN [db |-> fxn_inputs.db, out |-> fxn_inputs.out, stdout |-> head]
                 ELSE IF fxn_outputs.out.kind = "raise"
                 THEN [db |-> fxn_outputs.db, out |-> fxn_outputs.out, stdout |-> head]
                 ELSE [db |-> fxn_outputs.db,
                       out |-> IF Len(lines) < Min(Len(fxn_inputs.items),
                                                   Len(fxn_outputs.items))
                               THEN Raise("UnicodeDecodeError")
                               ELSE Return(PyNone),
                       stdout |-> head \o lines]

\* Mutant: the hasattr(fn, '__self__') test left out, so that fn.__self__ of a
\* plain function raises.
replay_unguarded(d, kind, h, name) ==
    IF kind = "None" THEN [db |-> d, out |-> Return(PyNone), stdout |-> << >>]
    ELSE IF kind = "function"
    THEN [db |-> d, out |-> Raise("AttributeError"), stdout |-> << >>]
    ELSE IF ~IsRedis(h) THEN [db |-> d, out |-> Return(PyNone), stdout |-> << >>]
    ELSE report(d, name)

\* replay(fn).  kind: "None" (no reference), "function" (a plain function, no
\* __self__), "method" (a bound method); h: what the owner holds in _redis
\* ("NoAttr" when it has no such attribute); name: fn.__qualname__.
replay(d, kind, h, name) ==
    IF kind # "method" THEN [db |-> d, out |-> Return(PyNone), stdout |-> << >>]
    ELSE IF ~IsRedis(h) THEN [db |-> d, out |-> Return(PyNone), stdout |-> << >>]
    ELSE report(d, name)

\* ------------------------------------------------------------ inputs
\* The values handed to store: the text "éa", the bytes FF (not UTF-8), the
\* integer -12, the float 1.5, and None, which the client refuses.
Values == {PyStr(<<233, 97>>), PyBytes(<<255>>), PyInt(1, 12), PyFloat(0, 15), PyNone}

Facades == 1..Len(redis)

\* ----------------------------------------------------------- actions
Observed(op, f, key, ref, out, stdout) ==
    [op |-> op, f |-> f, key |-> key, ref |-> ref, out |-> out, stdout |-> stdout]

Init ==
    /\ db = EmptyDb
    /\ redis = <<"Redis">>
    /\ issued = 0
    /\ calls = << >>
    /\ last = Observed("init", 1, << >>, "", Return(PyNone), << >>)

\* Cache(): a further facade on the same database.
Construct ==
    /\ Len(redis) < MaxFacades
    /\ LET r == init(db)
           f == Len(redis) + 1
       IN  /\ db' = r.db
           /\ redis' = Append(redis, "Redis")
           /\ calls' = << >>
           /\ last' = Observed("init", f, << >>, "", r.out, << >>)
           /\ UNCHANGED issued

\* cache.store(data) or cache.store(data=data)
Store ==
    /\ issued < MaxKeys
    /\ \E f \in Facades, data \in Values, kw \in BOOLEAN :
         LET args == IF kw THEN << >> ELSE <<data>>
             kwargs == IF kw THEN <<data>> ELSE << >>
             r == call_history(db, redis[f], args, kwargs, UuidText(issued + 1))
         IN  /\ db' = r.db
             /\ issued' = issued + 1
             /\ calls' = Append(calls, [args |-> args, data |-> data, out |-> r.out])
             /\ last' = Observed("store", f, << >>, "", r.out, << >>)
             /\ UNCHANGED redis

\* cache.get(key)
Get ==
    \E f \in Facades, key \in Uuids :
      LET r == get(db, redis[f], key, "None")
      IN  /\ db' = r.db
          /\ last' = Observed("get", 0, key, "", r.out, << >>)
          /\ UNCHANGED <<redis, issued, calls>>

\* cache.get_str(key)
GetStr ==
    \E f \in Facades, key \in Uuids :
      LET r == get_str(db, redis[f], key)
      IN  /\ db' = r.db
          /\ last' = Observed("get_str", 0, key, "", r.out, << >>)
          /\ UNCHANGED <<redis, issued, calls>>

\* cache.get_int(key)
GetInt ==
    \E f \in Facades, key \in Uuids :
      LET r == get_int(db, redis[f], key)
      IN  /\ db' = r.db
          /\ last' = Observed("get_int", 0, key, "", r.out, << >>)
          /\ UNCHANGED <<redis, issued, calls>>

\* The references handed to replay: None, the plain function Cache.store, the
\* bound methods cache.store and cache.get, and a bound method of an object
\* that has no _redis attribute.
Refs == {"None", "Cache.store", "cache.store", "cache.get", "other.method"}

\* replay(fn)
Replay ==
    \E f \in Facades, ref \in Refs :
      LET kind == CASE ref = "None" -> "None"
                    [] ref = "Cache.store" -> "function"
                    [] OTHER -> "method"
          h == IF ref = "other.method" THEN "NoAttr" ELSE redis[f]
          name == IF ref = "cache.get" THEN GetName ELSE StoreName
          r == replay(db, kind, h, name)
      IN  /\ db' = r.db
          /\ last' = Observed("replay", 0, name, ref, r.out, r.stdout)
          /\ UNCHANGED <<redis, issued, calls>>

Next == Construct \/ Store \/ Get \/ GetStr \/ GetInt \/ Replay

Spec == Init /\ [][Next]_vars

\* cache._redis = <something else>: the attribute is assigned from outside the
\* module, which is the case the isinstance tests of the decorators and of
\* replay provide for.
SetHandle ==
    \E f \in Facades, h \in Handles \ {"Redis"} :
      /\ redis[f] = "Redis"
      /\ redis' = [redis EXCEPT ![f] = h]
      /\ last' = Observed("set_handle", f, << >>, "", Return(PyNone), << >>)
      /\ UNCHANGED <<db, issued, calls>>

NextHandle == SetHandle \/ Store \/ Get \/ Replay

\* One facade in use whose handle may have been replaced.
SpecHandle == Init /\ [][NextHandle]_vars

\* ------------------------------------------- store, one command at a time
\* Callers that share one facade: each round trip to the server is a step of
\* its own, and the steps of different calls interleave.  A call in flight is
\* an entry of `calls` with
\*   done   the commands it has completed, in order
\*   key    the identifier it drew (empty before the draw)
\*   inpos, outpos  where its entries landed in the two lists (0: nowhere)
\*   alone  no other call was in flight when it began
\* and out.kind = "running" until it returns or raises.
Running == [kind |-> "running", exc |-> "", val |-> PyNone]

\* The commands one call issues, in program order, by decorator nesting.
store_effects == <<"set">>

count_calls_effects(method) == <<"incr">> \o method

\* Mutant: the arguments recorded only once the method has returned.
call_history_effects_late(method) == method \o <<"rpush_in", "rpush_out">>

call_history_effects(method) == <<"rpush_in">> \o method \o <<"rpush_out">>

\* Mutant: the two decorators stacked the other way round.
StoreEffectsCountOutermost == count_calls_effects(call_history_effects(store_effects))

\* @call_history @count_calls def store
StoreEffects == call_history_effects(count_calls_effects(store_effects))

\* Mutant: the returned key pushed to the inputs list.
EffectOneList(d, h, e, c, data_key) ==
    CASE e = "rpush_in" ->
            IF IsRedis(h) THEN RedisRpush(d, InKey(StoreName), PyStr(TupleStr(c.args)))
            ELSE [db |-> d, out |-> Return(PyNone)]
      [] e = "incr" ->
            IF IsRedis(h) THEN RedisIncr(d, StoreName)
            ELSE [db |-> d, out |-> Return(PyNone)]
      [] e = "set" ->
            store(d, h, c.args, IF c.args = << >> THEN <<c.data>> ELSE << >>, data_key)
      [] e = "rpush_out" ->
            IF IsRedis(h) THEN RedisRpush(d, InKey(StoreName), c.key)
            ELSE [db |-> d, out |-> Return(PyNone)]

\* One command of a call c, as the wrapper that issues it performs it.
Effect(d, h, e, c, data_key) ==
    CASE e = "rpush_in" ->
            IF IsRedis(h) THEN RedisRpush(d, InKey(StoreName), PyStr(TupleStr(c.args)))
            ELSE [db |-> d, out |-> Return(PyNone)]
      [] e = "incr" ->
            IF IsRedis(h) THEN RedisIncr(d, StoreName)
            ELSE [db |-> d, out |-> Return(PyNone)]
      [] e = "set" ->
            store(d, h, c.args, IF c.args = << >> THEN <<c.data>> ELSE << >>, data_key)
      [] e = "rpush_out" ->
            IF IsRedis(h) THEN RedisRpush(d, OutKey(StoreName), c.key)
            ELSE [db |-> d, out |-> Return(PyNone)]

ListLen(d, key) == IF Has(d, key) THEN Len(d[key].val) ELSE 0

\* Call i performs its next command, which is e.
Step(i, e) ==
    LET c == calls[i]
        r == Effect(db, redis[1], e, c, UuidText(issued + 1))
        advanced == [c EXCEPT
            !.done = Append(@, e),
            !.key = IF e = "set" THEN r.out.val ELSE @,
            !.inpos = IF e = "rpush_in" THEN ListLen(r.db, InKey(StoreName)) ELSE @,
            !.outpos = IF e = "rpush_out" THEN ListLen(r.db, OutKey(StoreName)) ELSE @,
            !.out = IF Len(c.done) + 1 < Len(StoreEffects) THEN Running
                    ELSE IF e = "set" THEN r.out ELSE Return(c.key)]
    IN  /\ c.out.kind = "running"
        /\ StoreEffects[Len(c.done) + 1] = e
        /\ db' = r.db
        /\ issued' = IF e = "set" THEN issued + 1 ELSE issued
        /\ calls' = [calls EXCEPT ![i] =
                        IF r.out.kind = "raise" THEN [c EXCEPT !.out = r.out]
                        ELSE advanced]
        /\ UNCHANGED <<redis, last>>

\* The values callers store in the interleaved runs: two that differ, and
\* one the client cannot encode.
StepValues == {v \in Values : v.t \in {"str", "int", "None"}}

\* cache.store(data): a caller enters the outer invoker.
Call ==
    \E data \in StepValues :
      /\ Len(calls) < MaxKeys
      /\ calls' = Append(calls,
            [args |-> <<data>>, data |-> data, out |-> Running, done |-> << >>,
             key |-> PyNone, inpos |-> 0, outpos |-> 0,
             alone |-> \A j \in 1..Len(calls) : calls[j].out.kind # "running"])
      /\ UNCHANGED <<db, redis, issued, last>>

\* self._redis.rpush(in_key, str(args))
PushInput == \E i \in 1..Len(calls) : Step(i, "rpush_in")

\* self._redis.incr(method.__qualname__)
Incr == \E i \in 1..Len(calls) : Step(i, "incr")

\* data_key = str(uuid.uuid4()); self._redis.set(data_key, data)
SetValue == \E i \in 1..Len(calls) : Step(i, "set")

\* self._redis.rpush(out_key, output); return output
PushOutput == \E i \in 1..Len(calls) : Step(i, "rpush_out")

\* The next command of a call in flight raises (the server cannot be reached)
\* or its caller dies: the call ends there, the database as it is.
Crash ==
    \E i \in 1..Len(calls) :
      /\ calls[i].out.kind = "running"
      /\ calls' = [calls EXCEPT ![i].out = Raise("ConnectionError")]
      /\ UNCHANGED <<db, redis, issued, last>>

NextSteps == Call \/ PushInput \/ Incr \/ SetValue \/ PushOutput \/ Crash

SpecSteps == Init /\ [][NextSteps]_vars

\* ------------------------------------------------------------ claims
\* The counter as replay reads it (int(get(name) or 0)) and the two history lists.
StoreCounter == IF Has(db, StoreName) THEN IntValue(db[StoreName].val).v[2] ELSE 0
Inputs == RedisLrange(db, InKey(StoreName)).items
Outputs == RedisLrange(db, OutKey(StoreName)).items

\* No store call since the most recent construction has failed.
AllReturned == \A i \in 1..Len(calls) : calls[i].out.kind = "return"

\* The store calls whose returned key is the key of the most recent read.
ReturnedLastKey == {i \in 1..Len(calls) : calls[i].out = Return(PyStr(last.key))}

\* C1 (as stated): get with no conversion function on a key that store
\* returned gives back the very value that was stored, whatever its type.
C1_RoundTripUnchanged ==
    last.op = "get" =>
        \A i \in ReturnedLastKey : last.out = Return(calls[i].data)

\* C1 (amended): get with no conversion function on a key that store returned
\* gives back the bytes the client encoded the value to: UTF-8 for text, the
\* repr for an integer or a float; a bytes value comes back unchanged.
C1_RoundTripEncoded ==
    last.op = "get" =>
        \A i \in ReturnedLastKey :
            /\ last.out = Return(PyBytes(Encode(calls[i].data)))
            /\ calls[i].data.t = "bytes" <=> last.out = Return(calls[i].data)

C1_Witness ==
    /\ last.op = "get"
    /\ \E i \in ReturnedLastKey : calls[i].data.t = "str"
    /\ Len(calls) = MaxKeys

\* C2: when none of the N store calls since the construction failed, the
\* counter is N and the inputs list and the outputs list each hold N entries.
C2_CounterAndLengths ==
    AllReturned =>
        /\ StoreCounter = Len(calls)
        /\ Len(Inputs) = Len(calls)
        /\ Len(Outputs) = Len(calls)

C2_Witness == AllReturned /\ Len(calls) = MaxKeys /\ last.op = "store"

\* C3 (as stated): get, get_str and get_int on an absent key return None and
\* do not raise.
C3_AbsentKeySentinel ==
    (last.op \in {"get", "get_str", "get_int"} /\ ~Has(db, last.key)) =>
        last.out = Return(PyNone)

\* The text a history entry holds, and the value the database holds under
\* the key that the i-th entry of the outputs list names.
InputText(i) == Utf8Text(Inputs[i])
OutputKey(i) == Utf8Text(Outputs[i])
Recorded(i, v) == InputText(i) = TupleStr(<<v>>)

C5_Transparent ==
    [][(last'.op = "store" /\ calls' # calls) =>
          LET c == calls'[Len(calls')]
              kwargs == IF c.args = << >> THEN <<c.data>> ELSE << >>
          IN  last'.out = store(db, redis[last'.f], c.args, kwargs, UuidText(issued')).out]_vars

C5_Witness ==
    /\ last.op = "store" /\ Len(calls) = 2
    /\ calls[1].out.kind = "return"
    /\ calls[2].out = Raise("DataError")
    /\ last.out = calls[2].out

\* C6: right after a construction the database is empty: no stored value,
\* no counter, no history list.
C6_EmptyAfterConstruction ==
    (last.op = "init" /\ last.out.kind = "return") => DOMAIN db = {}

C6_Witness == last.op = "init" /\ Len(redis) = 2 /\ issued = MaxKeys

\* C7: after N store calls, none failed, replay of the bound store prints the
\* summary line with N and then N entry lines, the i-th showing the input
\* recorded for the i-th call and the key the i-th call returned (as Python
\* prints a bytes object), in call order.
C7_ReplayListsCalls ==
    (last.op = "replay" /\ last.ref = "cache.store" /\ AllReturned) =>
        /\ last.out = Return(PyNone)
        /\ Len(last.stdout) = Len(calls) + 1
        /\ last.stdout[1] = Summary(StoreName, Digits(Len(calls)))
        /\ \A i \in 1..Len(calls) :
              last.stdout[i + 1] =
                  Entry(StoreName, TupleStr(calls[i].args),
                        BytesRepr(Utf8Encode(calls[i].out.val.v)))

C7_Witness ==
    /\ last.op = "replay" /\ last.ref = "cache.store"
    /\ AllReturned /\ Len(calls) = 2
    /\ calls[1].args # calls[2].args

\* C8 (as stated): replay of a plain (unbound) function or of a bound method
\* that is not instrumented prints nothing and raises nothing.
C8_SilentOnUninstrumented ==
    (last.op = "replay" /\ last.ref \in {"Cache.store", "cache.get"}) =>
        last.stdout = << >> /\ last.out = Return(PyNone)

\* C8 (amended): replay of no reference, of a plain (unbound) function or of
\* a bound method whose owner holds no Redis connection prints nothing and
\* raises nothing; replay of a bound method of a facade that is not
\* instrumented raises nothing and prints the summary line alone, with count 0.
C8_SilentOnUnbound ==
    last.op = "replay" =>
        /\ last.ref \in {"None", "Cache.store", "other.method"} =>
              last.stdout = << >> /\ last.out = Return(PyNone)
        /\ last.ref = "cache.get" =>
              last.stdout = <<Summary(GetName, Digits(0))>> /\ last.out = Return(PyNone)

C8_Witness ==
    /\ last.op = "replay" /\ last.ref = "cache.get"
    /\ AllReturned /\ Len(calls) = 2

\* C9: get_str on the key that store returned for a text gives that text.
C9_TextRoundTrip ==
    last.op = "get_str" =>
        \A i \in ReturnedLastKey :
            calls[i].data.t = "str" => last.out = Return(calls[i].data)

C9_Witness ==
    /\ last.op = "get_str"
    /\ \E i \in ReturnedLastKey : calls[i].data.t = "str" /\ \E j \in 1..Len(calls[i].data.v) : calls[i].data.v[j] > 127

\* C10: get_int on a key whose value is not an integer literal raises
\* ValueError, get_str on a key whose value is not UTF-8 raises
\* UnicodeDecodeError, and neither changes the database.
C10_DecodeErrorsPropagate ==
    [][/\ (last'.op = "get_int" /\ Has(db, last'.key) /\ ~IntLiteral(db[last'.key].val))
            => (last'.out = Raise("ValueError") /\ db' = db)
       /\ (last'.op = "get_str" /\ Has(db, last'.key) /\ ~Utf8Valid(db[last'.key].val))
            => (last'.out = Raise("UnicodeDecodeError") /\ db' = db)]_vars

C10_Witness ==
    /\ last.op = "get_str" /\ last.out = Raise("UnicodeDecodeError")
    /\ Has(db, last.key) /\ db[last.key].val = <<255>>
    /\ Len(calls) = 2

\* C11: a store call through a facade whose handle is no redis.Redis
\* instance leaves the counter and both history lists as they were, and still
\* runs the undecorated store: an identifier is drawn, and the database and
\* the caller get exactly what the undecorated store yields (the value
\* written when the handle is a client, AttributeError when it is None).
C11_DegradedInstrumentation ==
    [][(last'.op = "store" /\ calls' # calls /\ ~IsRedis(redis[last'.f])) =>
          LET c == calls'[Len(calls')]
              kwargs == IF c.args = << >> THEN <<c.data>> ELSE << >>
              raw == store(db, redis[last'.f], c.args, kwargs, UuidText(issued + 1))
          IN  /\ Has(db', StoreName) = Has(db, StoreName)
              /\ StoreCounter' = StoreCounter
              /\ Inputs' = Inputs /\ Outputs' = Outputs
              /\ issued' = issued + 1
              /\ db' = raw.db /\ last'.out = raw.out]_vars

C11_Witness ==
    /\ last.op = "store" /\ redis[last.f] = "Client"
    /\ last.out.kind = "return" /\ Has(db, last.out.val.v)
    /\ StoreCounter = 1 /\ Len(calls) = 2 /\ Len(Inputs) = 1 /\ Len(Outputs) = 1

\* ------------------------------------------------ interleaved store calls
IsPrefix(s, t) == Len(s) <= Len(t) /\ s = SubSeq(t, 1, Len(s))

Did(i, e) == \E k \in 1..Len(calls[i].done) : calls[i].done[k] = e

Doers(e) == {i \in 1..Len(calls) : Did(i, e)}

\* C12: every store call issues its commands in the order input append,
\* counter increment, value write, output append: what a call has done so far
\* is an initial part of that order, a returned call has done all four, and
\* the database shows each command done: the call's arguments in the inputs
\* list, one count per increment, the value under the call's key, the key in
\* the outputs list.
C12_FixedOrder ==
    /\ \A i \in 1..Len(calls) :
         /\ IsPrefix(calls[i].done, <<"rpush_in", "incr", "set", "rpush_out">>)
         /\ calls[i].out.kind = "return" => Len(calls[i].done) = 4
         /\ Did(i, "rpush_in") <=>
              /\ calls[i].inpos \in 1..Len(Inputs)
              /\ Inputs[calls[i].inpos] = Utf8Encode(TupleStr(calls[i].args))
         /\ Did(i, "set") <=>
              /\ calls[i].key # PyNone
              /\ RedisGet(db, calls[i].key.v).out = Return(PyBytes(Encode(calls[i].data)))
         /\ Did(i, "rpush_out") <=>
              /\ calls[i].outpos \in 1..Len(Outputs)
              /\ Outputs[calls[i].outpos] = Encode(calls[i].key)
    /\ StoreCounter = Cardinality(Doers("incr"))
    /\ Len(Inputs) = Cardinality(Doers("rpush_in"))
    /\ Len(Outputs) = Cardinality(Doers("rpush_out"))

C12_Witness ==
    /\ Len(calls) = 2
    /\ calls[1].done = <<"rpush_in", "incr", "set">> /\ calls[1].out.kind = "running"
    /\ calls[2].done = <<"rpush_in">> /\ calls[2].out.kind = "running"

\* C13: with store calls interleaved, a position of the two lists can pair
\* the input of one call with the output of another.  Wherever call a's input
\* and call b's output share a position, that position holds a's arguments
\* and b's key, and the value under that key is the one b stored; a and b
\* differ only when calls overlapped or a call failed.  Calls that ran one
\* after the other and all returned are paired call by call.
C13_CrossPairing ==
    /\ \A a, b \in 1..Len(calls) :
         (calls[a].inpos > 0 /\ calls[a].inpos = calls[b].outpos) =>
            /\ Inputs[calls[a].inpos] = Utf8Encode(TupleStr(calls[a].args))
            /\ Outputs[calls[a].inpos] = Encode(calls[b].key)
            /\ RedisGet(db, calls[b].key.v).out = Return(PyBytes(Encode(calls[b].data)))
            /\ a # b => \E j \in 1..Len(calls) :
                           ~calls[j].alone \/ calls[j].out.kind = "raise"
    /\ (\A i \in 1..Len(calls) : calls[i].alone /\ calls[i].out.kind = "return") =>
          \A i \in 1..Len(calls) : calls[i].inpos = i /\ calls[i].outpos = i

\* Every call has returned, yet some position pairs the arguments of one call
\* with the key of another, under which a different value is stored.
C13_Witness ==
    /\ Len(calls) >= 2 /\ AllReturned
    /\ \E a, b \in 1..Len(calls) :
         /\ a # b /\ calls[a].inpos = calls[b].outpos
         /\ RedisGet(db, Encode(calls[b].key)).out # Return(PyBytes(Encode(calls[a].data)))

\* C14: whichever way the commands of M store calls interleave, once all M
\* have returned the counter is M, each list holds M entries, and every call
\* has one position of its own in each list.
C14_ConcurrentTotals ==
    LET M == Len(calls)
    IN  (\A i \in 1..M : calls[i].out.kind = "return") =>
          /\ StoreCounter = M
          /\ Len(Inputs) = M /\ Len(Outputs) = M
          /\ {calls[i].inpos : i \in 1..M} = 1..M
          /\ {calls[i].outpos : i \in 1..M} = 1..M

C14_Witness ==
    /\ Len(calls) = MaxKeys /\ AllReturned
    /\ \E i \in 1..Len(calls) : ~calls[i].alone
    /\ \E i \in 1..Len(calls) : calls[i].inpos # calls[i].outpos

\* The calls that failed with their arguments already in the inputs list.
Stranded == {i \in 1..Len(calls) : calls[i].out.kind = "raise" /\ Did(i, "rpush_in")}

InFlight == {i \in 1..Len(calls) : calls[i].out.kind = "running"}

\* What a failed call leaves behind: its arguments in the inputs list, no
\* entry in the outputs list; a call whose value write raised is such a call.
StrandedInputs ==
    /\ \A i \in 1..Len(calls) :
         calls[i].out = Raise("DataError") =>
            i \in Stranded /\ calls[i].done = <<"rpush_in", "incr">>
    /\ \A i \in Stranded :
         /\ Inputs[calls[i].inpos] = Utf8Encode(TupleStr(calls[i].args))
         /\ calls[i].outpos = 0
         /\ calls[i].key # PyNone =>
              \A k \in 1..Len(Outputs) : Outputs[k] # Encode(calls[i].key)
    /\ Len(Inputs) >= Len(Outputs) + Cardinality(Stranded)
    /\ InFlight = {} => Len(Inputs) = Len(Outputs) + Cardinality(Stranded)

\* C15: a store call that fails between its input append and its output
\* append has added one entry to the inputs list and none to the outputs
\* list, so the inputs list is the longer one by one entry for each such
\* call; no later step takes the entry back or supplies the missing output.
C15_MismatchStays ==
    [][/\ StrandedInputs'
       /\ Stranded \subseteq Stranded'
       /\ \A i \in Stranded : calls'[i] = calls[i]
       /\ \A i \in 1..Len(calls) :
            (i \in Stranded' /\ i \notin Stranded) =>
               /\ Inputs' = Inputs /\ Outputs' = Outputs
               /\ calls[i].inpos = calls'[i].inpos]_vars

C15_Witness ==
    /\ Len(calls) = 2 /\ InFlight = {}
    /\ calls[1].out = Raise("DataError") /\ calls[2].out.kind = "return"
    /\ Len(Inputs) = 2 /\ Len(Outputs) = 1

\* ------------------------------------------------------ the facade in use
\* C16: replay of the bound store prints the summary line with the counter
\* value and then one entry line per position that both lists have, from the
\* first position on: with lists of different lengths that is the length of
\* the shorter one, and the entries beyond it are not printed and not
\* reported.
C16_ReplayTruncates ==
    (last.op = "replay" /\ last.ref = "cache.store") =>
        LET n == IF Len(Inputs) <= Len(Outputs) THEN Len(Inputs) ELSE Len(Outputs)
        IN  /\ last.out = Return(PyNone)
            /\ Len(last.stdout) = n + 1
            /\ last.stdout[1] = Summary(StoreName, Digits(StoreCounter))
            /\ \A i \in 1..n :
                  last.stdout[i + 1] =
                      Entry(StoreName, InputText(i), BytesRepr(Outputs[i]))

\* Two calls, the first failed: two inputs, one output, the counter at 2, and
\* replay prints the summary line and one entry line.
C16_Witness ==
    /\ last.op = "replay" /\ last.ref = "cache.store"
    /\ Len(Inputs) = 2 /\ Len(Outputs) = 1 /\ StoreCounter = 2
    /\ Len(last.stdout) = 2
    /\ calls[1].out.kind = "raise"

Reads == {"get", "get_str", "get_int", "replay"}

\* C17 (as stated): get, get_str, get_int and replay leave the database as it
\* is, whether they return or raise, and only a store call changes the
\* counter.
C17_OnlyStoreChangesCounter ==
    [][/\ last'.op \in Reads => db' = db
       /\ (db' # db /\ StoreCounter' # StoreCounter) => last'.op = "store"]_vars

\* C17 (amended): get, get_str, get_int and replay leave the database as it
\* is, whether they return or raise; the counter changes only by a store
\* call, which adds one, or by the construction of a facade, which flushes
\* the database and with it the counter.
C17_ReadsLeaveStore ==
    [][/\ last'.op \in Reads => db' = db
       /\ (db' # db /\ StoreCounter' # StoreCounter) =>
            \/ last'.op = "store" /\ StoreCounter' = StoreCounter + 1
            \/ last'.op = "init" /\ StoreCounter' = 0 /\ db' = EmptyDb]_vars

\* A read that raised, with the counter, both lists and a value in place.
C17_Witness ==
    /\ last.op \in {"get_str", "get_int"} /\ last.out.kind = "raise"
    /\ StoreCounter = MaxKeys /\ Len(Inputs) = MaxKeys /\ Len(Outputs) >= 1
    /\ Has(db, last.key)

\* C18: with store calls interleaved command by command and calls failing at
\* any point, the outputs list is never longer than the counter is high, and
\* the counter never higher than the inputs list is long.
C18_OutputsCounterInputs ==
    Len(Outputs) <= StoreCounter /\ StoreCounter <= Len(Inputs)

\* Both inequalities strict, one call failed on the connection and another
\* still in flight.
C18_Witness ==
    /\ Len(Outputs) < StoreCounter /\ StoreCounter < Len(Inputs)
    /\ \E i \in 1..Len(calls) : calls[i].out = Raise("ConnectionError")
    /\ InFlight # {}

\* The store calls since the most recent construction that returned a key.
Returned == {i \in 1..Len(calls) : calls[i].out.kind = "return"}

\* C19: identifiers never repeating, the calls that returned hold keys that
\* differ from one another, and every step that changes the database, other
\* than a construction, leaves get of each key returned so far as it was:
\* the value its call stored.
C19_ReturnedKeysStable ==
    [][/\ calls' # calls =>
            \A i, j \in Returned' : i # j => calls'[i].out.val # calls'[j].out.val
       /\ (db' # db /\ last'.op # "init") =>
            \A i \in Returned :
               /\ get(db', "Redis", calls[i].out.val.v, "None").out
                    = get(db, "Redis", calls[i].out.val.v, "None").out
               /\ get(db', "Redis", calls[i].out.val.v, "None").out
                    = Return(PyBytes(Encode(calls[i].data)))]_vars

\* A get of the first call's key after a second call stored another value.
C19_Witness ==
    /\ Len(calls) = 2 /\ Returned = {1, 2}
    /\ calls[1].data # calls[2].data
    /\ last.op = "get" /\ PyStr(last.key) = calls[1].out.val
    /\ last.out = Return(PyBytes(Encode(calls[1].data)))

\* C20: the counter and the two lists are kept under the name of the
\* operation, whichever facade the call came through: the database holds
\* nothing but them and the stored values; right after a facade is
\* constructed the database is empty, the counter and the lists of every
\* facade with it; and the one counter equals the number of store calls made
\* through any facade since the most recent construction.
C20_SharedByName ==
    /\ DOMAIN db \subseteq {StoreName, InKey(StoreName), OutKey(StoreName)} \cup Uuids
    /\ last.op = "init" =>
         /\ db = EmptyDb /\ calls = << >>
         /\ StoreCounter = 0 /\ Inputs = << >> /\ Outputs = << >>
    /\ last.op = "store" => last.f \in 1..Len(redis) /\ StoreCounter >= 1
    /\ StoreCounter = Len(calls)
    /\ Len(Inputs) = Len(calls)

\* Two calls since the second facade was constructed, the later one through
\* the first facade, and the counter at 2.
C20_Witness ==
    /\ Len(redis) = 2 /\ last.op = "store" /\ last.f = 1
    /\ Len(calls) = 2 /\ StoreCounter = 2

=============================================================================
